---- MODULE Spec2Model ----
(***************************************************************************)
(* A model of the mini Python compiler (src/c.py): the constant-folding    *)
(* pass over the syntax tree, the compilation cache of PythonCompiler,     *)
(* and the .pyc container written by generate_pyc and read by load_pyc.    *)
(*                                                                         *)
(* A source text is a sequence of tokens in prefix order ("+" "2" "x" is   *)
(* the expression 2 + x); a module holds one expression statement.  The    *)
(* syntax tree is a heap of mutable nodes, as Python's ast objects are.    *)
(***************************************************************************)
EXTENDS Integers, Sequences, FiniteSets, TLC

(* ------------------------------ bounds --------------------------------- *)
\* longest source text, in tokens, of the folding specification
MaxLen == 5

(* ------------------------------ values --------------------------------- *)
\* A Python value: an int (den = 1), a float (the rational num/den, den > 0)
\* or a str over the one-letter alphabet {a} (num is its length).
NoValue == [t |-> "none", num |-> 0, den |-> 1]
IntVal(n) == [t |-> "int", num |-> n, den |-> 1]
StrVal(n) == [t |-> "str", num |-> n, den |-> 1]

Abs(n) == IF n < 0 THEN -n ELSE n

RECURSIVE GCD(_, _)
GCD(a, b) == IF b = 0 THEN a ELSE GCD(b, a % b)

FloatVal(n, d) ==
  LET g == GCD(Abs(n), Abs(d))
      s == IF d < 0 THEN -1 ELSE 1
  IN  [t |-> "float", num |-> (s * n) \div g, den |-> (s * d) \div g]

Raised(e) == [ok |-> FALSE, val |-> NoValue, exc |-> e]
Returned(v) == [ok |-> TRUE, val |-> v, exc |-> ""]

IsNumber(v) == v.t \in {"int", "float"}

\* Python's a + b, a - b, a * b, a / b on the values above.
PyArith(op, a, b) ==
  LET isInt == a.t = "int" /\ b.t = "int"
      mk(n, d) == IF isInt THEN IntVal(n) ELSE FloatVal(n, d)
  IN  CASE op = "+" -> Returned(mk(a.num * b.den + b.num * a.den, a.den * b.den))
        [] op = "-" -> Returned(mk(a.num * b.den - b.num * a.den, a.den * b.den))
        [] op = "*" -> Returned(mk(a.num * b.num, a.den * b.den))
        [] op = "/" -> IF b.num = 0 THEN Raised("ZeroDivisionError")
                       ELSE Returned(FloatVal(a.num * b.den, a.den * b.num))
        [] OTHER -> Raised("TypeError")

PyBinOp(op, a, b) ==
  CASE IsNumber(a) /\ IsNumber(b) -> PyArith(op, a, b)
    [] a.t = "str" /\ b.t = "str" /\ op = "+" -> Returned(StrVal(a.num + b.num))
    [] a.t = "str" /\ b.t = "int" /\ op = "*" ->
         Returned(StrVal(IF b.num < 0 THEN 0 ELSE a.num * b.num))
    [] a.t = "int" /\ b.t = "str" /\ op = "*" ->
         Returned(StrVal(IF a.num < 0 THEN 0 ELSE a.num * b.num))
    [] OTHER -> Raised("TypeError")

(* ------------------------------ tokens --------------------------------- *)
Operators == {"+", "-", "*", "/"}
Literals == {"0", "2", "'a'"}
Names == {"x"}
Tokens == Operators \cup Literals \cup Names

LiteralValue(tok) ==
  CASE tok = "0" -> IntVal(0)
    [] tok = "2" -> IntVal(2)
    [] tok = "'a'" -> StrVal(1)
    [] OTHER -> NoValue

(* ---------------------------- syntax tree ------------------------------ *)
\* One ast node.  child is Expr.value, value is Constant.value, body is
\* Module.body; loc says whether the node carries lineno/col_offset.
Node(type, op, left, right, value, name, child, body, loc) ==
  [type |-> type, op |-> op, left |-> left, right |-> right, value |-> value,
   name |-> name, child |-> child, body |-> body, loc |-> loc]

ConstantNode(v, loc) == Node("Constant", "", 0, 0, v, "", 0, <<>>, loc)
NameNode(n) == Node("Name", "", 0, 0, NoValue, n, 0, <<>>, TRUE)
BinOpNode(op, l, r) == Node("BinOp", op, l, r, NoValue, "", 0, <<>>, TRUE)
ExprNode(c) == Node("Expr", "", 0, 0, NoValue, "", c, <<>>, TRUE)
ModuleNode(b) == Node("Module", "", 0, 0, NoValue, "", 0, b, FALSE)

\* ast.parse of one expression starting at token pos: the nodes are
\* allocated in the heap, operands before the node that holds them.
RECURSIVE ParseExpr(_, _, _)
ParseExpr(heap, text, pos) ==
  IF pos > Len(text) THEN [ok |-> FALSE, heap |-> heap, node |-> 0, pos |-> pos]
  ELSE LET tok == text[pos] IN
    IF tok \in Literals
      THEN [ok |-> TRUE, heap |-> Append(heap, ConstantNode(LiteralValue(tok), TRUE)),
            node |-> Len(heap) + 1, pos |-> pos + 1]
    ELSE IF tok \in Names
      THEN [ok |-> TRUE, heap |-> Append(heap, NameNode(tok)),
            node |-> Len(heap) + 1, pos |-> pos + 1]
    ELSE LET l == ParseExpr(heap, text, pos + 1) IN
      IF ~l.ok THEN l
      ELSE LET r == ParseExpr(l.heap, text, l.pos) IN
        IF ~r.ok THEN r
        ELSE [ok |-> TRUE, heap |-> Append(r.heap, BinOpNode(tok, l.node, r.node)),
              node |-> Len(r.heap) + 1, pos |-> r.pos]

\* ast.parse(source, filename, 'exec'): Module(body=[Expr(value=...)]), or a
\* SyntaxError when the text is not exactly one expression.
Parse(text) ==
  LET e == ParseExpr(<<>>, text, 1) IN
  IF ~e.ok \/ e.pos # Len(text) + 1
    THEN [ok |-> FALSE, heap |-> <<>>, root |-> 0, exc |-> "SyntaxError"]
    ELSE LET h1 == Append(e.heap, ExprNode(e.node))
             h2 == Append(h1, ModuleNode(<<Len(h1)>>))
         IN  [ok |-> TRUE, heap |-> h2, root |-> Len(h2), exc |-> ""]

(* ---------------------- constant-folding optimizer --------------------- *)
RECURSIVE visit(_, _)
RECURSIVE generic_visit(_, _)
RECURSIVE VisitList(_, _, _, _)

\* What a visit hands back: the heap as the visit left it, the node it
\* returned, and the exception that escaped it ("" when none did).
Visited(heap, n) == [heap |-> heap, node |-> n, exc |-> ""]
Escaped(heap, n, e) == [heap |-> heap, node |-> n, exc |-> e]

\* a visit_BinOp with no try/except around the evaluation
visit_BinOp_uncaught(heap, n) ==
  LET node == heap[n]
      l == heap[node.left]
      r == heap[node.right]
  IN  IF l.type = "Constant" /\ r.type = "Constant"
        THEN LET v == PyBinOp(node.op, l.value, r.value)
             IN  IF v.ok
                   THEN Visited(Append(heap, ConstantNode(v.val, FALSE)), Len(heap) + 1)
                   ELSE Escaped(heap, n, v.exc)
        ELSE Visited(heap, n)

\* a visit_BinOp that visits the operands first (self.generic_visit(node))
visit_BinOp_deep(heap, n) ==
  LET g == generic_visit(heap, n)
      node == g.heap[n]
      l == g.heap[node.left]
      r == g.heap[node.right]
  IN  IF l.type = "Constant" /\ r.type = "Constant"
        THEN LET v == PyBinOp(node.op, l.value, r.value)
             IN  IF v.ok
                   THEN Visited(Append(g.heap, ConstantNode(v.val, FALSE)), Len(g.heap) + 1)
                   ELSE Visited(g.heap, n)
        ELSE Visited(g.heap, n)

\* Optimizer.visit_BinOp: a BinOp whose two operands are Constant nodes is
\* replaced by a new Constant (built with no location) unless evaluating it
\* raises; any other BinOp is returned as it is, its operands unvisited.
visit_BinOp(heap, n) ==
  LET node == heap[n]
      l == heap[node.left]
      r == heap[node.right]
  IN  IF l.type = "Constant" /\ r.type = "Constant"
        THEN LET v == IF node.op \in Operators
                        THEN PyBinOp(node.op, l.value, r.value)
                        ELSE Raised("")
             IN  IF v.ok
                   THEN Visited(Append(heap, ConstantNode(v.val, FALSE)), Len(heap) + 1)
                   ELSE Visited(heap, n)
        ELSE Visited(heap, n)

\* NodeVisitor.visit: dispatch on the node's class.
visit(heap, n) ==
  IF heap[n].type = "BinOp" THEN visit_BinOp(heap, n) ELSE generic_visit(heap, n)

\* The list branch of NodeTransformer.generic_visit: each item is visited
\* in order and the list is rebuilt in place from what the visits return.
VisitList(heap, ids, i, acc) ==
  IF i > Len(ids) THEN [heap |-> heap, ids |-> acc, exc |-> ""]
  ELSE LET r == visit(heap, ids[i])
       IN  IF r.exc # "" THEN [heap |-> r.heap, ids |-> ids, exc |-> r.exc]
           ELSE VisitList(r.heap, ids, i + 1, Append(acc, r.node))

\* NodeTransformer.generic_visit: every child field of the node is visited
\* and the field is assigned whatever the visit returned (setattr on the
\* node itself); the node is returned.
generic_visit(heap, n) ==
  LET node == heap[n] IN
  CASE node.type = "Module" ->
         LET r == VisitList(heap, node.body, 1, <<>>)
         IN  IF r.exc # "" THEN Escaped(r.heap, n, r.exc)
             ELSE Visited([r.heap EXCEPT ![n].body = r.ids], n)
    [] node.type = "Expr" ->
         LET r == visit(heap, node.child)
         IN  IF r.exc # "" THEN Escaped(r.heap, n, r.exc)
             ELSE Visited([r.heap EXCEPT ![n].child = r.node], n)
    [] node.type = "BinOp" ->
         LET l == visit(heap, node.left)
             h1 == [l.heap EXCEPT ![n].left = l.node]
             r == visit(h1, node.right)
         IN  IF l.exc # "" THEN Escaped(l.heap, n, l.exc)
             ELSE IF r.exc # "" THEN Escaped(r.heap, n, r.exc)
             ELSE Visited([r.heap EXCEPT ![n].right = r.node], n)
    [] OTHER -> Visited(heap, n)

\* PythonCompiler._optimize_ast: Optimizer().visit(node).
_optimize_ast(heap, root) == visit(heap, root)

\* PythonCompiler._peephole_optimize returns the code it is given.
_peephole_optimize(code) == code

(* ------------------------------ lowering ------------------------------- *)
Instr(ins, op, value, name) == [ins |-> ins, op |-> op, value |-> value, name |-> name]

\* The builtin compile() first validates the tree: every statement and
\* expression node must carry lineno.
RECURSIVE Located(_, _)
Located(heap, n) ==
  LET node == heap[n] IN
  CASE node.type = "Module" -> \A i \in 1..Len(node.body) : Located(heap, node.body[i])
    [] node.type = "Expr" -> node.loc /\ Located(heap, node.child)
    [] node.type = "BinOp" ->
         node.loc /\ Located(heap, node.left) /\ Located(heap, node.right)
    [] OTHER -> node.loc

\* The instructions of an expression, operands first.
RECURSIVE Emit(_, _)
EmitBody(heap, ids) ==
  IF ids = <<>> THEN <<>> ELSE Emit(heap, ids[1])
Emit(heap, n) ==
  LET node == heap[n] IN
  CASE node.type = "Module" -> EmitBody(heap, node.body)
    [] node.type = "Expr" -> Emit(heap, node.child)
    [] node.type = "BinOp" ->
         Emit(heap, node.left) \o Emit(heap, node.right)
           \o <<Instr("BINARY_OP", node.op, NoValue, "")>>
    [] node.type = "Constant" -> <<Instr("LOAD_CONST", "", node.value, "")>>
    [] OTHER -> <<Instr("LOAD_NAME", "", NoValue, node.name)>>

NoCode == [filename |-> "", code |-> <<>>]

\* compile(tree, filename, 'exec'): a code object, or the TypeError of a
\* tree that fails validation.
Lower(heap, root, filename) ==
  IF Located(heap, root)
    THEN [ok |-> TRUE, code |-> [filename |-> filename, code |-> Emit(heap, root)],
          exc |-> ""]
    ELSE [ok |-> FALSE, code |-> NoCode,
          exc |-> "required field \"lineno\" missing from expr"]

\* Running the instructions of a code object on an operand stack: the value
\* of the module's expression, or the exception it raises.  The names of
\* the model's sources are not bound in the globals execute() supplies.
RECURSIVE Run(_, _, _)
Run(code, pc, stack) ==
  IF pc > Len(code) THEN Returned(stack[Len(stack)])
  ELSE LET i == code[pc] IN
    CASE i.ins = "LOAD_CONST" -> Run(code, pc + 1, Append(stack, i.value))
      [] i.ins = "LOAD_NAME" -> Raised("NameError")
      [] OTHER ->
           LET n == Len(stack)
               v == PyBinOp(i.op, stack[n - 1], stack[n])
           IN  IF v.ok THEN Run(code, pc + 1, Append(SubSeq(stack, 1, n - 2), v.val))
               ELSE v

Evaluate(codeobj) == Run(codeobj.code, 1, <<NoValue>>)

(* ----------------------------- errors ---------------------------------- *)
\* An exception as the caller sees it: its class and its message, the
\* message as the prefix the handler adds and the text of the cause.
NoError == [cls |-> "", prefix |-> "", cause |-> ""]
CompilerError(prefix, cause) == [cls |-> "CompilerError", prefix |-> prefix, cause |-> cause]
OtherError(cls) == [cls |-> cls, prefix |-> "", cause |-> ""]

\* The body of compile_source after a cache miss: parse, fold, lower, and
\* every exception re-raised as CompilerError("Compilation failed: ...").
optimizations == [constant_folding |-> TRUE, peephole |-> TRUE]

Ran(p, o, l) == [parse |-> p, optimize |-> o, lower |-> l]

Compile(text, filename) ==
  LET p == Parse(text) IN
  IF ~p.ok THEN [ok |-> FALSE, code |-> NoCode, ran |-> Ran(1, 0, 0),
                 err |-> CompilerError("Compilation failed: ", p.exc)]
  ELSE LET o == IF optimizations.constant_folding
                  THEN _optimize_ast(p.heap, p.root)
                  ELSE Visited(p.heap, p.root)
           c == Lower(o.heap, o.node, filename)
           f == IF optimizations.constant_folding THEN 1 ELSE 0
       IN  IF o.exc # "" THEN [ok |-> FALSE, code |-> NoCode, ran |-> Ran(1, f, 0),
                               err |-> CompilerError("Compilation failed: ", o.exc)]
           ELSE IF ~c.ok THEN [ok |-> FALSE, code |-> NoCode, ran |-> Ran(1, f, 1),
                               err |-> CompilerError("Compilation failed: ", c.exc)]
           ELSE [ok |-> TRUE,
                 code |-> IF optimizations.peephole
                            THEN _peephole_optimize(c.code) ELSE c.code,
                 ran |-> Ran(1, f, 1),
                 err |-> NoError]

(* ------------------------------ marshal -------------------------------- *)
Filenames == {"a.py", "b.py"}

FilenameByte(f) == IF f = "a.py" THEN 1 ELSE IF f = "b.py" THEN 2 ELSE 0
ByteFilename(b) == IF b = 1 THEN "a.py" ELSE IF b = 2 THEN "b.py" ELSE ""

InsByte(ins) ==
  CASE ins = "LOAD_CONST" -> 100 [] ins = "LOAD_NAME" -> 101 [] OTHER -> 122
ByteIns(b) ==
  CASE b = 100 -> "LOAD_CONST" [] b = 101 -> "LOAD_NAME" [] b = 122 -> "BINARY_OP"
    [] OTHER -> ""
OpByte(op) ==
  CASE op = "+" -> 43 [] op = "-" -> 45 [] op = "*" -> 42 [] op = "/" -> 47
    [] OTHER -> 0
ByteOp(b) ==
  CASE b = 43 -> "+" [] b = 45 -> "-" [] b = 42 -> "*" [] b = 47 -> "/" [] OTHER -> ""
TypeByte(t) ==
  CASE t = "int" -> 105 [] t = "float" -> 103 [] t = "str" -> 117 [] OTHER -> 78
ByteType(b) ==
  CASE b = 105 -> "int" [] b = 103 -> "float" [] b = 117 -> "str" [] OTHER -> "none"
NameByte(n) == IF n = "x" THEN 120 ELSE 0
ByteName(b) == IF b = 120 THEN "x" ELSE ""

\* a small signed number as one byte, and back
SByte(n) == n % 256
ByteS(b) == IF b >= 128 THEN b - 256 ELSE b

InstrBytes(i) ==
  <<InsByte(i.ins), OpByte(i.op), TypeByte(i.value.t), SByte(i.value.num),
    SByte(i.value.den), NameByte(i.name)>>

BytesInstr(b) ==
  Instr(ByteIns(b[1]), ByteOp(b[2]),
        [t |-> ByteType(b[3]), num |-> ByteS(b[4]), den |-> ByteS(b[5])],
        ByteName(b[6]))

RECURSIVE CodeBytes(_)
CodeBytes(instrs) ==
  IF instrs = <<>> THEN <<>>
  ELSE InstrBytes(Head(instrs)) \o CodeBytes(Tail(instrs))

\* marshal.dumps(code): the type byte of a code object (TYPE_CODE with the
\* reference flag, 0xe3), then the object's fields.
Dumps(codeobj) ==
  <<227, FilenameByte(codeobj.filename), Len(codeobj.code)>> \o CodeBytes(codeobj.code)

\* marshal.load on the bytes left in the file: one object is read from the
\* front and whatever follows it is ignored.  Nothing left is an EOFError, a
\* first byte that is no type code a ValueError, too few bytes an EOFError.
Loads(bytes) ==
  IF bytes = <<>> THEN [ok |-> FALSE, code |-> NoCode,
                        exc |-> "EOF read where object expected"]
  ELSE IF bytes[1] # 227 THEN [ok |-> FALSE, code |-> NoCode,
                               exc |-> "bad marshal data (unknown type code)"]
  ELSE IF Len(bytes) < 3 \/ Len(bytes) < 3 + 6 * bytes[3]
    THEN [ok |-> FALSE, code |-> NoCode, exc |-> "marshal data too short"]
  ELSE [ok |-> TRUE,
        code |-> [filename |-> ByteFilename(bytes[2]),
                  code |-> [k \in 1..bytes[3] |->
                              BytesInstr(SubSeq(bytes, 3 + 6 * (k - 1) + 1, 3 + 6 * k))]],
        exc |-> ""]

(* --------------------------- .pyc container ---------------------------- *)
\* importlib.util.MAGIC_NUMBER of the interpreter the program is developed
\* with (CPython 3.13: 3571 little-endian, then \r\n).
PYTHON_MAGIC == <<243, 13, 13, 10>>

\* sys.version_info of that interpreter gives the tag mini-313
_get_python_tag == "mini-313"

\* The path generate_pyc derives from source_path:
\* <dir>/__pycache__/<base>.<tag>.pyc
PycPath(source_path) ==
  IF source_path = "a.py" THEN "__pycache__/a.mini-313.pyc"
  ELSE "__pycache__/b.mini-313.pyc"

PycPaths == {PycPath(f) : f \in Filenames}

\* A Python int of a source file's stat, as five base-256 digits, least
\* significant first: the first four are the number modulo 2^32.
\* int.to_bytes(4, 'little') raises OverflowError unless the number fits.
to_bytes4(n) ==
  IF n[5] = 0 THEN [ok |-> TRUE, bytes |-> SubSeq(n, 1, 4), exc |-> ""]
  ELSE [ok |-> FALSE, bytes |-> <<>>, exc |-> "int too big to convert"]

Low32(n) == SubSeq(n, 1, 4)

\* 1700000000, and a time past 2106
Mtimes == {<<0, 241, 83, 101, 0>>, <<0, 0, 0, 0, 1>>}
\* 5, 2^32 - 1, 2^32 + 5
Sizes == {<<5, 0, 0, 0, 0>>, <<255, 255, 255, 255, 0>>, <<5, 0, 0, 0, 1>>}

\* load_pyc on the bytes of a file (Absent when there is no such file).
Absent == <<-1>>

Prefix(bytes, n) == SubSeq(bytes, 1, IF n < Len(bytes) THEN n ELSE Len(bytes))
From(bytes, n) == SubSeq(bytes, n + 1, Len(bytes))

LoadFailed(cause, unmarshalled) ==
  [ok |-> FALSE, code |-> NoCode,
   err |-> CompilerError("Failed to load .pyc file: ", cause),
   unmarshalled |-> unmarshalled]

load_pyc(bytes) ==
  IF bytes = Absent THEN LoadFailed("No such file or directory", FALSE)
  ELSE IF Prefix(bytes, 4) # PYTHON_MAGIC
    \* the CompilerError raised here is caught by the handler below it
    THEN LoadFailed("Invalid magic number in .pyc file", FALSE)
  ELSE LET m == Loads(From(bytes, 4 + 8)) IN
    IF m.ok THEN [ok |-> TRUE, code |-> m.code, err |-> NoError, unmarshalled |-> TRUE]
    ELSE LoadFailed(m.exc, TRUE)

(* ------------------------------- state --------------------------------- *)
VARIABLES
  src,        \* compile_source's argument source, a token sequence
  cpc,        \* where compile_source stands: start, parsed, optimized, done, failed
  ast,        \* the heap of ast nodes
  astRoot,    \* the node the name `tree` is bound to
  astIn,      \* the heap as it was when _optimize_ast was called
  inRoot,     \* the node _optimize_ast was called with
  optExc,     \* the exception that escaped _optimize_ast ("" when none)
  compiled,   \* what the stepwise compile_source returned or raised
  hashOf,     \* the interpreter's hash() on source texts, fixed for the process
  code_cache, \* PythonCompiler._code_cache: (filename, hash(source)) -> code
  steps,      \* per (filename, text): how often parse, optimize, lower ran
  ncalls,     \* calls made on the compiler so far
  past,       \* per (filename, text): what its first successful call returned
  stat,       \* per source file: os.path.getmtime and os.path.getsize
  disk,       \* per .pyc path: the bytes of the file, or Absent
  origin,     \* per .pyc path: who last opened it for writing, and with what code
  w,          \* generate_pyc in progress: position, arguments, unflushed bytes
  ret         \* the last finished call: its arguments and what it returned or raised

foldVars == <<src, cpc, ast, astRoot, astIn, inRoot, optExc, compiled>>
cacheVars == <<hashOf, code_cache, steps, past>>
pycVars == <<stat, disk, origin, w>>
vars == <<src, cpc, ast, astRoot, astIn, inRoot, optExc, compiled,
          hashOf, code_cache, steps, ncalls, past, stat, disk, origin, w, ret>>

NoResult == [ok |-> FALSE, code |-> NoCode, err |-> NoError]
FoldFile == "a.py"

\* every token sequence of at most MaxLen tokens
Texts == UNION {[1..n -> Tokens] : n \in 1..MaxLen}

\* the sources the cache is exercised with: 2, 2 / 0 (left unfolded), 2 + 2
SampleTexts == {<<"2">>, <<"/", "2", "0">>, <<"+", "2", "2">>}
HashValues == {0, 1, 2}

\* the code objects compile_source can hand to its callers
Codes == {Compile(t, f).code : <<t, f>> \in {x \in SampleTexts \X Filenames :
                                               Compile(x[1], x[2]).ok}}

NormalStat == [mtime |-> <<0, 241, 83, 101, 0>>, size |-> <<5, 0, 0, 0, 0>>]
Stats == [mtime : Mtimes, size : Sizes]

\* files some other program left at a .pyc path: none, one that is no
\* container, and a container cut off after its magic and four more bytes
ForeignFiles == {Absent, <<88, 88, 88, 88, 0, 0, 0, 0, 0, 0, 0, 0>>,
                 PYTHON_MAGIC \o <<0, 0, 0, 0>>}

NoRan == Ran(0, 0, 0)
Idle == [pc |-> "idle", path |-> "", source_path |-> "", code |-> NoCode, buf |-> <<>>]
NoOrigin == [by |-> "other", code |-> NoCode, complete |-> FALSE]

Ret(op, ok, code, err) ==
  [op |-> op, ok |-> ok, code |-> code, err |-> err, filename |-> "", text |-> <<>>,
   hit |-> FALSE, ran |-> NoRan, known |-> FALSE, prior |-> NoCode,
   path |-> "", unmarshalled |-> FALSE, value |-> NoValue, read |-> <<>>]

NoRet == Ret("none", FALSE, NoCode, NoError)

FoldIdle ==
  /\ src = <<>> /\ cpc = "off" /\ ast = <<>> /\ astRoot = 0
  /\ astIn = <<>> /\ inRoot = 0 /\ optExc = "" /\ compiled = NoResult

CacheEmpty ==
  /\ code_cache = [k \in {} |-> NoCode]
  /\ steps = [k \in Filenames \X SampleTexts |-> NoRan]
  /\ ncalls = 0
  /\ past = [k \in Filenames \X SampleTexts |-> NoCode]

PycIdle ==
  /\ origin = [p \in PycPaths |-> NoOrigin]
  /\ w = Idle
  /\ ret = NoRet

(* ------------- compile_source, step by step, on an empty cache --------- *)
FoldInit ==
  /\ src \in Texts
  /\ cpc = "start"
  /\ ast = <<>> /\ astRoot = 0
  /\ astIn = <<>> /\ inRoot = 0
  /\ optExc = ""
  /\ compiled = NoResult
  /\ hashOf = [t \in SampleTexts |-> 0]
  /\ CacheEmpty
  /\ stat = [f \in Filenames |-> NormalStat]
  /\ disk = [p \in PycPaths |-> Absent]
  /\ PycIdle

\* tree = ast.parse(source, filename, 'exec')
ParseStep ==
  /\ cpc = "start"
  /\ LET p == Parse(src) IN
       IF p.ok
         THEN /\ ast' = p.heap /\ astRoot' = p.root
              /\ cpc' = "parsed"
              /\ UNCHANGED compiled
         ELSE /\ cpc' = "failed"
              /\ compiled' = [ok |-> FALSE, code |-> NoCode,
                              err |-> CompilerError("Compilation failed: ", p.exc)]
              /\ UNCHANGED <<ast, astRoot>>
  /\ UNCHANGED <<src, astIn, inRoot, optExc, cacheVars, ncalls, pycVars, ret>>

\* tree = self._optimize_ast(tree)
OptimizeStep ==
  /\ cpc = "parsed"
  /\ optimizations.constant_folding
  /\ LET o == _optimize_ast(ast, astRoot) IN
       /\ astIn' = ast /\ inRoot' = astRoot
       /\ ast' = o.heap
       /\ optExc' = o.exc
       /\ IF o.exc = ""
            THEN /\ astRoot' = o.node
                 /\ cpc' = "optimized"
                 /\ UNCHANGED compiled
            ELSE /\ cpc' = "failed"
                 /\ compiled' = [ok |-> FALSE, code |-> NoCode,
                                 err |-> CompilerError("Compilation failed: ", o.exc)]
                 /\ UNCHANGED astRoot
  /\ UNCHANGED <<src, cacheVars, ncalls, pycVars, ret>>

\* code = compile(tree, filename, 'exec'); code = self._peephole_optimize(code)
LowerStep ==
  /\ cpc = "optimized"
  /\ LET c == Lower(ast, astRoot, FoldFile) IN
       IF c.ok
         THEN /\ cpc' = "done"
              /\ compiled' = [ok |-> TRUE, code |-> _peephole_optimize(c.code),
                              err |-> NoError]
         ELSE /\ cpc' = "failed"
              /\ compiled' = [ok |-> FALSE, code |-> NoCode,
                              err |-> CompilerError("Compilation failed: ", c.exc)]
  /\ UNCHANGED <<src, ast, astRoot, astIn, inRoot, optExc, cacheVars, ncalls, pycVars, ret>>

FoldNext == ParseStep \/ OptimizeStep \/ LowerStep

SpecFold == FoldInit /\ [][FoldNext]_vars

(* ------------------- the compiler object's operations ------------------ *)
\* bound on the calls made on one PythonCompiler in a run
MaxCalls == 3

CacheKey(source, filename) == <<filename, hashOf[source]>>

\* a compile_source that returns the code without keeping it
Store_dropped(cache, cache_key, code) == cache

\* self._code_cache[cache_key] = code
Store(cache, cache_key, code) ==
  [x \in DOMAIN cache \cup {cache_key} |-> IF x = cache_key THEN code ELSE cache[x]]

\* PythonCompiler.compile_source(source, filename)
CompileSource(source, filename) ==
  /\ w.pc = "idle"
  /\ ncalls < MaxCalls
  /\ ncalls' = ncalls + 1
  /\ LET cache_key == CacheKey(source, filename)
         k == <<filename, source>>
         r0 == [Ret("compile", FALSE, NoCode, NoError) EXCEPT
                  !.filename = filename, !.text = source,
                  !.known = (past[k] # NoCode), !.prior = past[k]]
     IN  IF cache_key \in DOMAIN code_cache
           THEN /\ ret' = [r0 EXCEPT !.ok = TRUE, !.code = code_cache[cache_key],
                                     !.hit = TRUE]
                /\ past' = IF past[k] = NoCode
                             THEN [past EXCEPT ![k] = code_cache[cache_key]] ELSE past
                /\ UNCHANGED <<code_cache, steps>>
           ELSE LET c == Compile(source, filename) IN
                /\ steps' = [steps EXCEPT ![k] =
                               Ran(@.parse + c.ran.parse, @.optimize + c.ran.optimize,
                                   @.lower + c.ran.lower)]
                /\ ret' = [r0 EXCEPT !.ok = c.ok, !.code = c.code, !.err = c.err,
                                     !.ran = c.ran]
                /\ IF c.ok
                     THEN /\ code_cache' = Store(code_cache, cache_key, c.code)
                          /\ past' = IF past[k] = NoCode
                                       THEN [past EXCEPT ![k] = c.code] ELSE past
                     ELSE UNCHANGED <<code_cache, past>>
  /\ UNCHANGED <<foldVars, hashOf, pycVars>>

\* PythonCompiler.load_pyc(pyc_path)
LoadPyc(pyc_path) ==
  /\ w.pc = "idle"
  /\ LET r == load_pyc(disk[pyc_path]) IN
       ret' = [Ret("load", r.ok, r.code, r.err) EXCEPT
                 !.path = pyc_path, !.unmarshalled = r.unmarshalled,
                 !.read = disk[pyc_path]]
  /\ ncalls < MaxCalls
  /\ ncalls' = ncalls + 1
  /\ UNCHANGED <<foldVars, cacheVars, pycVars>>

\* PythonCompiler.execute(code) with the default globals
Execute(code) ==
  /\ w.pc = "idle"
  /\ LET r == Evaluate(code) IN
       ret' = [Ret("execute", r.ok, code, OtherError(r.exc)) EXCEPT !.value = r.val]
  /\ ncalls < MaxCalls
  /\ ncalls' = ncalls + 1
  /\ UNCHANGED <<foldVars, cacheVars, pycVars>>

\* generate_pyc, line by line.  open(pyc_path, 'wb') creates or truncates
\* the file; what is written sits in the file object's buffer until the
\* with block is left, by its end or by an exception.
GenOpen(code, source_path) ==
  /\ w.pc = "idle"
  /\ LET pyc_path == PycPath(source_path) IN
       /\ w' = [pc |-> "open", path |-> pyc_path, source_path |-> source_path,
                code |-> code, buf |-> <<>>]
       /\ disk' = [disk EXCEPT ![pyc_path] = <<>>]
       /\ origin' = [origin EXCEPT ![pyc_path] =
                       [by |-> "generate_pyc", code |-> code, complete |-> FALSE]]
  /\ ncalls < MaxCalls
  /\ ncalls' = ncalls + 1
  /\ UNCHANGED <<foldVars, cacheVars, stat, ret>>

\* leaving the with block on an exception: the buffer is flushed, the file
\* closed, and the exception goes to the caller
GenRaise(exc) ==
  /\ disk' = [disk EXCEPT ![w.path] = w.buf]
  /\ w' = Idle
  /\ ret' = [Ret("generate", FALSE, w.code, OtherError(exc)) EXCEPT
               !.path = w.path, !.filename = w.source_path]

GenWriteMagic ==
  /\ w.pc = "open"
  /\ w' = [w EXCEPT !.pc = "magic", !.buf = @ \o PYTHON_MAGIC]
  /\ UNCHANGED <<foldVars, cacheVars, ncalls, stat, disk, origin, ret>>

GenWriteMtime ==
  /\ w.pc = "magic"
  /\ LET b == to_bytes4(stat[w.source_path].mtime) IN
       IF b.ok
         THEN /\ w' = [w EXCEPT !.pc = "mtime", !.buf = @ \o b.bytes]
              /\ UNCHANGED <<disk, ret>>
         ELSE GenRaise("OverflowError")
  /\ UNCHANGED <<foldVars, cacheVars, ncalls, stat, origin>>

GenWriteSize ==
  /\ w.pc = "mtime"
  /\ LET b == to_bytes4(stat[w.source_path].size) IN
       IF b.ok
         THEN /\ w' = [w EXCEPT !.pc = "size", !.buf = @ \o b.bytes]
              /\ UNCHANGED <<disk, ret>>
         ELSE GenRaise("OverflowError")
  /\ UNCHANGED <<foldVars, cacheVars, ncalls, stat, origin>>

GenWritePadding ==
  /\ w.pc = "size"
  /\ w' = [w EXCEPT !.pc = "padding", !.buf = @ \o <<0, 0, 0, 0>>]
  /\ UNCHANGED <<foldVars, cacheVars, ncalls, stat, disk, origin, ret>>

GenDump ==
  /\ w.pc = "padding"
  /\ w' = [w EXCEPT !.pc = "dumped", !.buf = @ \o Dumps(w.code)]
  /\ UNCHANGED <<foldVars, cacheVars, ncalls, stat, disk, origin, ret>>

GenClose ==
  /\ w.pc = "dumped"
  /\ disk' = [disk EXCEPT ![w.path] = w.buf]
  /\ w' = Idle
  /\ ret' = [Ret("generate", TRUE, w.code, NoError) EXCEPT
               !.path = w.path, !.filename = w.source_path]
  /\ origin' = [origin EXCEPT ![w.path].complete = TRUE]
  /\ UNCHANGED <<foldVars, cacheVars, ncalls, stat>>

\* the steps of a generate_pyc call that has opened its file
GenerateSteps ==
  \/ GenWriteMagic \/ GenWriteMtime \/ GenWriteSize
  \/ GenWritePadding \/ GenDump \/ GenClose

\* the code objects compile_source has returned on this compiler
Cached == {code_cache[k] : k \in DOMAIN code_cache}

Init ==
  /\ FoldIdle
  /\ hashOf \in [SampleTexts -> HashValues]
  /\ CacheEmpty
  /\ stat = [f \in Filenames |-> NormalStat]
  /\ disk = [p \in PycPaths |-> Absent]
  /\ PycIdle

Next ==
  \/ \E source \in SampleTexts, filename \in Filenames : CompileSource(source, filename)
  \/ \E pyc_path \in PycPaths : LoadPyc(pyc_path)
  \/ \E code \in Cached : Execute(code)
  \/ \E code \in Cached : GenOpen(code, code.filename)
  \/ GenerateSteps

Spec == Init /\ [][Next]_vars

\* The container operations alone, on source files of any size and age and
\* whatever is found at the .pyc paths.
PycInit ==
  /\ FoldIdle
  /\ hashOf = [t \in SampleTexts |-> 0]
  /\ CacheEmpty
  /\ stat \in [Filenames -> Stats]
  /\ disk \in [PycPaths -> ForeignFiles]
  /\ PycIdle

PycNext ==
  \/ \E pyc_path \in PycPaths : LoadPyc(pyc_path)
  \/ \E code \in Codes : Execute(code)
  \/ \E code \in Codes, source_path \in Filenames : GenOpen(code, source_path)
  \/ GenerateSteps

SpecPyc == PycInit /\ [][PycNext]_vars

(* =============================== claims ================================ *)
\* the expression of the module's one statement, in the tree _optimize_ast
\* was given
AfterOptimize == astIn # <<>>
InExpr == astIn[astIn[inRoot].body[1]].child
OutExpr == ast[ast[astRoot].body[1]].child

BothLiteral(heap, n) ==
  heap[heap[n].left].type = "Constant" /\ heap[heap[n].right].type = "Constant"

Folded(heap, n) == PyBinOp(heap[n].op, heap[heap[n].left].value, heap[heap[n].right].value)

\* a op b on two numeric literals, evaluation succeeding
NumericFoldCase ==
  /\ AfterOptimize
  /\ astIn[InExpr].type = "BinOp"
  /\ BothLiteral(astIn, InExpr)
  /\ IsNumber(astIn[astIn[InExpr].left].value)
  /\ IsNumber(astIn[astIn[InExpr].right].value)
  /\ Folded(astIn, InExpr).ok

\* a op b on two literals, evaluation raising
FailedFoldCase ==
  /\ AfterOptimize
  /\ astIn[InExpr].type = "BinOp"
  /\ BothLiteral(astIn, InExpr)
  /\ ~Folded(astIn, InExpr).ok

\* C7: a binary node over two numeric literals (b # 0 for divide) is
\* replaced by one literal holding a op b, the resulting tree is accepted
\* by the lowering step of compile_source, and the code evaluates to what
\* the unfolded expression evaluates to.
C7_FoldingCorrectness ==
  NumericFoldCase =>
    /\ optExc = ""
    /\ ast[OutExpr].type = "Constant"
    /\ ast[OutExpr].value = Folded(astIn, InExpr).val
    /\ cpc # "failed"
    /\ cpc = "done" =>
         Evaluate(compiled.code) = Run(Emit(astIn, inRoot), 1, <<NoValue>>)

\* C8: when evaluating a op b on two literal operands raises, the optimizer
\* raises nothing and hands back the original binary node unchanged (same
\* operator, same two operands, still the statement's expression), and
\* compilation goes on to produce the code of the unfolded expression.
C8_FoldingSafety ==
  FailedFoldCase =>
    /\ optExc = ""
    /\ astRoot = inRoot
    /\ OutExpr = InExpr
    /\ ast = astIn
    /\ cpc # "failed"
    /\ cpc = "done" => compiled.ok /\ compiled.code.code = Emit(astIn, inRoot)

\* 2 / 0 has been through the optimizer and compile_source has returned
C8_Witness ==
  /\ FailedFoldCase
  /\ src = <<"/", "2", "0">>
  /\ cpc = "done"

\* the nodes of the subtree under n
RECURSIVE Subtree(_, _)
Subtree(heap, n) ==
  IF heap[n].type = "BinOp"
    THEN {n} \cup Subtree(heap, heap[n].left) \cup Subtree(heap, heap[n].right)
    ELSE {n}

\* C9: a binary node with an immediate operand that is not a literal is
\* handed back exactly as it was and nothing below it is visited or folded:
\* the node and all its descendants are as they were, and when it is the
\* statement's expression the whole tree is, with no literal built.
C9_ShallowFold ==
  AfterOptimize =>
    \A n \in DOMAIN astIn :
      (astIn[n].type = "BinOp" /\ ~BothLiteral(astIn, n)) =>
        /\ \A d \in Subtree(astIn, n) : ast[d] = astIn[d]
        /\ n = InExpr => ast = astIn /\ astRoot = inRoot /\ OutExpr = n

\* (2 + 2) + 2 has been through the optimizer and compile_source has
\* returned: the outer node still holds the inner binary node
C9_Witness ==
  /\ AfterOptimize
  /\ src = <<"+", "+", "2", "2", "2">>
  /\ cpc = "done"
  /\ ast[OutExpr].type = "BinOp"
  /\ ast[ast[OutExpr].left].type = "BinOp"

\* C10: after _optimize_ast returns, every node of the input tree still has
\* the children it had before the call.
C10_InputUntouched ==
  AfterOptimize => \A n \in DOMAIN astIn : ast[n] = astIn[n]

\* C3: a compile_source call whose (filename, text) had an earlier
\* successful call returns what that call returned and runs no parse, no
\* optimize and no lower; and for a (filename, text) that compiles, each of
\* the three runs at most once over the whole run.
C3_CacheIdempotence ==
  /\ (ret.op = "compile" /\ ret.known) =>
       /\ ret.ok
       /\ ret.hit
       /\ ret.code = ret.prior
       /\ ret.ran = NoRan
  /\ \A k \in Filenames \X SampleTexts :
       Compile(k[2], k[1]).ok =>
         steps[k].parse <= 1 /\ steps[k].optimize <= 1 /\ steps[k].lower <= 1

\* the same (filename, text) has been compiled twice, the second time from
\* the cache, with the three steps run once
C3_Witness ==
  /\ ret.op = "compile" /\ ret.known /\ ret.hit
  /\ steps[<<ret.filename, ret.text>>] = Ran(1, 1, 1)
  /\ \A s, t \in SampleTexts : s # t => hashOf[s] # hashOf[t]

\* C4: a text is never answered with the artifact of another text of the
\* same filename, each (filename, text) compiled successfully has an entry
\* of its own, and every entry inserted is still there with its artifact.
C4_KeySensitivity ==
  /\ (ret.op = "compile" /\ ret.ok) => ret.code = Compile(ret.text, ret.filename).code
  /\ Cardinality(DOMAIN code_cache) =
       Cardinality({k \in Filenames \X SampleTexts : past[k] # NoCode})
  /\ \A k \in Filenames \X SampleTexts :
       past[k] # NoCode =>
         /\ CacheKey(k[2], k[1]) \in DOMAIN code_cache
         /\ code_cache[CacheKey(k[2], k[1])] = past[k]

\* C1: load_pyc on a file generate_pyc has written in full for the code A
\* succeeds and returns A.
C1_RoundTrip ==
  (ret.op = "load" /\ origin[ret.path].complete) =>
    ret.ok /\ ret.code = origin[ret.path].code

\* the failure load_pyc reports for a container whose payload is cut off
CorruptPayloadError == load_pyc(PYTHON_MAGIC \o <<0, 0, 0, 0>>).err

\* the kind of an exception is its class
Kind(err) == err.cls

\* C2: load_pyc on a file whose first four bytes are not the magic fails
\* without unmarshalling, with an error whose kind differs from that of a
\* corrupt-payload failure.
C2_MagicRejection ==
  (ret.op = "load" /\ ret.read # Absent /\ Prefix(ret.read, 4) # PYTHON_MAGIC) =>
    /\ ~ret.ok
    /\ ~ret.unmarshalled
    /\ Kind(ret.err) # Kind(CorruptPayloadError)

\* C5: generate_pyc succeeds for every source size s and stores s mod 2^32
\* in header bytes 8..11 (the mtime being one that fits its field).
C5_SizeMasking ==
  (ret.op = "generate" /\ to_bytes4(stat[ret.filename].mtime).ok) =>
    /\ ret.ok
    /\ SubSeq(disk[ret.path], 9, 12) = Low32(stat[ret.filename].size)

\* C6: a file generate_pyc has opened never starts with the magic while
\* holding fewer bytes than the 16-byte header and the whole payload.
C6_AtomicPersist ==
  \A p \in PycPaths :
    (origin[p].by = "generate_pyc" /\ Prefix(disk[p], 4) = PYTHON_MAGIC) =>
      Len(disk[p]) >= 16 + Len(Dumps(origin[p].code))

====
